---- MODULE Spec2Model ----
(***************************************************************************)
(* retryWithBackoff (ai/src/utils/retry-helper.ts): a retry wrapper with   *)
(* exponential backoff around a fallible asynchronous operation.           *)
(*                                                                         *)
(* Strings are sequences of one-character strings, so that includes(),     *)
(* the /retry in (\d+(?:\.\d+)?)/i match and the template literals are     *)
(* computed character by character.  Times are exact rationals [n, d];     *)
(* the one place where IEEE-754 rounding is observable, the expression     *)
(* Math.ceil(parseFloat(s) * 1000), is computed on 53-bit mantissas.       *)
(***************************************************************************)
EXTENDS Integers, Sequences, FiniteSets, TLC

\* ------------------------------------------------------------------------
\* Strings
\* ------------------------------------------------------------------------
Digits == <<"0", "1", "2", "3", "4", "5", "6", "7", "8", "9">>

UpperCase == <<"A", "B", "C", "D", "E", "F", "G", "H", "I", "J", "K", "L", "M",
               "N", "O", "P", "Q", "R", "S", "T", "U", "V", "W", "X", "Y", "Z">>

LowerCase == <<"a", "b", "c", "d", "e", "f", "g", "h", "i", "j", "k", "l", "m",
               "n", "o", "p", "q", "r", "s", "t", "u", "v", "w", "x", "y", "z">>

IsDigit(ch) == \E i \in 1..10 : Digits[i] = ch

DigitVal(ch) == (CHOOSE i \in 1..10 : Digits[i] = ch) - 1

CaseFold == [ch \in {UpperCase[i] : i \in 1..26} |->
                LowerCase[CHOOSE i \in 1..26 : UpperCase[i] = ch]]

\* the case folding of the regular expression's i flag
ToLower(ch) == IF ch \in DOMAIN CaseFold THEN CaseFold[ch] ELSE ch

\* s occurs in str at position i (1-based), compared character by character
StartsAt(str, s, i) ==
    /\ i >= 1
    /\ i + Len(s) - 1 <= Len(str)
    /\ \A j \in 1..Len(s) : str[i + j - 1] = s[j]

\* String.prototype.includes: case-sensitive substring search
Includes(str, s) == \E i \in 1..(Len(str) + 1) : StartsAt(str, s, i)

\* the same search with both sides case-folded
StartsAtIgnoreCase(str, s, i) ==
    /\ i >= 1
    /\ i + Len(s) - 1 <= Len(str)
    /\ \A j \in 1..Len(s) : ToLower(str[i + j - 1]) = ToLower(s[j])

IncludesIgnoreCase(str, s) ==
    \E i \in 1..(Len(str) + 1) : StartsAtIgnoreCase(str, s, i)

\* String.prototype.substring(0, n)
Substring0(str, n) == SubSeq(str, 1, IF Len(str) < n THEN Len(str) ELSE n)

\* decimal rendering of an integer inside a template literal
RECURSIVE NumToString(_)
NumToString(k) ==
    IF k < 0 THEN <<"-">> \o NumToString(-k)
    ELSE IF k < 10 THEN <<Digits[k + 1]>>
    ELSE NumToString(k \div 10) \o <<Digits[(k % 10) + 1]>>

\* ------------------------------------------------------------------------
\* The regular expression /retry in (\d+(?:\.\d+)?)/i
\* ------------------------------------------------------------------------
RetryInLiteral == <<"r", "e", "t", "r", "y", " ", "i", "n", " ">>

\* length of the longest run of digits of str that starts at position i
RECURSIVE DigitRun(_, _)
DigitRun(str, i) ==
    IF i <= Len(str) /\ IsDigit(str[i]) THEN 1 + DigitRun(str, i + 1) ELSE 0

\* the regular expression matches at position i
MatchesAt(str, i) ==
    /\ StartsAtIgnoreCase(str, RetryInLiteral, i)
    /\ DigitRun(str, i + Len(RetryInLiteral)) >= 1

\* String.prototype.match: the leftmost match, its capture group split at
\* the decimal point; found = FALSE stands for the null result
RetryAfterMatch(str) ==
    IF \E i \in 1..Len(str) : MatchesAt(str, i)
    THEN LET i  == CHOOSE k \in 1..Len(str) :
                      MatchesAt(str, k) /\ \A l \in 1..(k - 1) : ~MatchesAt(str, l)
             b  == i + Len(RetryInLiteral)
             nI == DigitRun(str, b)
             dot == b + nI
             nF == IF dot <= Len(str) /\ str[dot] = "."
                   THEN DigitRun(str, dot + 1) ELSE 0
         IN  [found |-> TRUE,
              int   |-> SubSeq(str, b, b + nI - 1),
              frac  |-> SubSeq(str, dot + 1, dot + nF)]
    ELSE [found |-> FALSE, int |-> <<>>, frac |-> <<>>]

\* ------------------------------------------------------------------------
\* IEEE-754 double arithmetic of Math.ceil(parseFloat(s) * 1000)
\* A positive double is [m, e]: m its 53 mantissa bits, most significant
\* first, and e the binary exponent of the last bit; m = <<>> is zero.
\* ------------------------------------------------------------------------
MantissaBits == 53

\* bit strings are multiplied in chunks of this many bits
ChunkBits == 20

RECURSIVE DigitsToInt(_)
DigitsToInt(ds) ==
    IF ds = <<>> THEN 0
    ELSE 10 * DigitsToInt(SubSeq(ds, 1, Len(ds) - 1)) + DigitVal(ds[Len(ds)])

RECURSIVE Pow10(_)
Pow10(k) == IF k = 0 THEN 1 ELSE 10 * Pow10(k - 1)

RECURSIVE Pow2(_)
Pow2(k) == IF k = 0 THEN 1 ELSE 2 * Pow2(k - 1)

\* 2^k modulo q, by repeated squaring
RECURSIVE PowMod2(_, _)
PowMod2(k, q) ==
    IF k = 0 THEN 1 % q
    ELSE IF k % 2 = 0
    THEN LET h == PowMod2(k \div 2, q) IN (h * h) % q
    ELSE (2 * PowMod2(k - 1, q)) % q

\* the n low binary digits of v, most significant first
FixedBits(v, n) == [i \in 1..n |-> (v \div Pow2(n - i)) % 2]

\* binary digits of a non-negative integer, most significant first
IntBits(k) ==
    IF k = 0 THEN <<>>
    ELSE FixedBits(k, CHOOSE n \in 1..31 :
                          k \div Pow2(n - 1) >= 1 /\ k \div Pow2(n - 1) < 2)

RECURSIVE BitsToInt(_)
BitsToInt(bs) ==
    IF bs = <<>> THEN 0
    ELSE IF Len(bs) = 1 THEN bs[1]
    ELSE LET h == Len(bs) \div 2
         IN  BitsToInt(SubSeq(bs, 1, h)) * Pow2(Len(bs) - h)
             + BitsToInt(SubSeq(bs, h + 1, Len(bs)))

\* what is left of the fraction r / q after its first k binary digits
FracRem(r, q, k) == (r * PowMod2(k, q)) % q

\* the first k binary digits of the fraction r / q, and the remainder left
FracBits(r, q, k) ==
    [bits |-> [i \in 1..k |-> IF 2 * FracRem(r, q, i - 1) >= q THEN 1 ELSE 0],
     rem  |-> FracRem(r, q, k)]

\* number of zero bits at the start of the binary fraction r / q, 0 < r < q
LeadingZeros(r, q) == CHOOSE z \in 0..30 :
    /\ 2 * FracRem(r, q, z) >= q
    /\ \A y \in 0..(z - 1) : 2 * FracRem(r, q, y) < q

\* bs + 1 on a bit string; a carry out of the top lengthens it by one bit
Increment(bs) ==
    IF \A i \in 1..Len(bs) : bs[i] = 1
    THEN <<1>> \o [i \in 1..Len(bs) |-> 0]
    ELSE LET j == CHOOSE k \in 1..Len(bs) :
                      bs[k] = 0 /\ \A l \in (k + 1)..Len(bs) : bs[l] = 1
         IN  [i \in 1..Len(bs) |-> IF i < j THEN bs[i] ELSE IF i = j THEN 1 ELSE 0]

\* round to nearest, ties to even: bs holds MantissaBits + 1 bits (the last
\* one is the rounding bit), sticky tells whether anything nonzero follows,
\* e is the exponent of the last kept bit
RoundNearestEven(bs, sticky, e) ==
    LET kept == SubSeq(bs, 1, MantissaBits)
        up   == bs[MantissaBits + 1] = 1 /\ (sticky \/ kept[MantissaBits] = 1)
        inc  == Increment(kept)
    IN  IF ~up THEN [m |-> kept, e |-> e]
        ELSE IF Len(inc) = MantissaBits THEN [m |-> inc, e |-> e]
        ELSE [m |-> SubSeq(inc, 1, MantissaBits), e |-> e + 1]

\* parseFloat of the decimal literal int.frac: the double nearest to it
ParseFloat(int, frac) ==
    LET q  == Pow10(Len(frac))
        p  == DigitsToInt(int \o frac)
        ip == p \div q
        r  == p % q
        ib == IntBits(ip)
    IN  IF p = 0 THEN [m |-> <<>>, e |-> 0]
        ELSE IF ip > 0
        THEN LET k == MantissaBits + 1 - Len(ib)
                 f == FracBits(r, q, k)
             IN  RoundNearestEven(ib \o f.bits, f.rem # 0, 1 - k)
        ELSE LET z == LeadingZeros(r, q)
                 f == FracBits(FracRem(r, q, z), q, MantissaBits + 1)
             IN  RoundNearestEven(f.bits, f.rem # 0, -(z + MantissaBits))

\* the exact product bs * k + carry of a bit string and a small integer,
\* computed chunk by chunk from the low end
RECURSIVE MulCarry(_, _, _)
MulCarry(bs, k, carry) ==
    IF bs = <<>> THEN IntBits(carry)
    ELSE LET n == IF Len(bs) < ChunkBits THEN Len(bs) ELSE ChunkBits
             t == BitsToInt(SubSeq(bs, Len(bs) - n + 1, Len(bs))) * k + carry
         IN  MulCarry(SubSeq(bs, 1, Len(bs) - n), k, t \div Pow2(n))
             \o FixedBits(t % Pow2(n), n)

\* the double product x * k, rounded once
FloatTimes(x, k) ==
    IF x.m = <<>> THEN x
    ELSE LET prod == MulCarry(x.m, k, 0)
             drop == Len(prod) - MantissaBits
             tail == SubSeq(prod, MantissaBits + 2, Len(prod))
         IN  IF drop <= 0 THEN [m |-> prod, e |-> x.e]
             ELSE RoundNearestEven(SubSeq(prod, 1, MantissaBits + 1),
                                   \E i \in 1..Len(tail) : tail[i] = 1,
                                   x.e + drop)

\* Math.ceil of a non-negative double below 2^31, as an integer
MathCeil(x) ==
    IF x.m = <<>> THEN 0
    ELSE LET n    == Len(x.m) + x.e
             ipart == IF n <= 0 THEN <<>> ELSE SubSeq(x.m, 1, n)
             fpart == IF n <= 0 THEN x.m ELSE SubSeq(x.m, n + 1, Len(x.m))
         IN  BitsToInt(ipart)
             + (IF \E i \in 1..Len(fpart) : fpart[i] = 1 THEN 1 ELSE 0)

\* Math.ceil(parseFloat(retryAfterMatch[1]) * 1000)
HintMillis(match) == MathCeil(FloatTimes(ParseFloat(match.int, match.frac), 1000))

\* the same quantity in exact decimal arithmetic: seconds to milliseconds,
\* rounded up to the next whole millisecond
ExactHintMillis(match) ==
    LET q == Pow10(Len(match.frac))
        p == DigitsToInt(match.int \o match.frac)
    IN  (p \div q) * 1000 + ((p % q) * 1000 + q - 1) \div q


\* ------------------------------------------------------------------------
\* Numbers: exact rationals [n, d] with d > 0, in lowest terms.  The delays
\* and multipliers tried are dyadic, so the double arithmetic of
\* delay * backoffMultiplier and Math.min is exact on them.
\* ------------------------------------------------------------------------
RECURSIVE GCD(_, _)
GCD(a, b) == IF b = 0 THEN a ELSE GCD(b, a % b)

Abs(a) == IF a < 0 THEN -a ELSE a

Rat(n, d) == LET g == GCD(Abs(n), d) IN [n |-> n \div g, d |-> d \div g]

Num(k) == [n |-> k, d |-> 1]

IsInteger(x) == x.d = 1

Leq(x, y) == x.n * y.d <= y.n * x.d

Less(x, y) == x.n * y.d < y.n * x.d

Times(x, y) == Rat(x.n * y.n, x.d * y.d)

\* Math.min
MathMin(x, y) == IF Leq(x, y) THEN x ELSE y

\* ------------------------------------------------------------------------
\* Inputs: the options objects callers pass, the errors and values the
\* wrapped operation produces
\* ------------------------------------------------------------------------
\* largest maxRetries tried with the explicit four-field options
MaxRetriesTried == 4

\* the options object {}
NoOptions == [f \in {} |-> Num(0)]

OptionsTried ==
    {NoOptions}
    \cup {[maxRetries |-> Num(r), initialDelay |-> Num(1000),
           maxDelay |-> Num(5000), backoffMultiplier |-> Num(2)] :
              r \in 0..MaxRetriesTried}
    \cup {[maxRetries |-> Num(3)],
          [maxRetries |-> Num(-1)],
          [maxRetries |-> Rat(3, 2), initialDelay |-> Num(6000),
           maxDelay |-> Num(2000)],
          [maxRetries |-> Num(2), maxDelay |-> Num(2000),
           backoffMultiplier |-> Rat(1, 2)]}

\* "429"
Msg429 ==
    <<"4", "2", "9">>

\* "503"
Msg503 ==
    <<"5", "0", "3">>

\* "permission denied"
MsgDenied ==
    <<"p", "e", "r", "m", "i", "s", "s", "i", "o", "n", " ", "d", "e", "n",
      "i", "e", "d">>

\* "Rate Limit exceeded"
MsgRateLimitCaps ==
    <<"R", "a", "t", "e", " ", "L", "i", "m", "i", "t", " ", "e", "x", "c",
      "e", "e", "d", "e", "d">>

\* "QUOTA exhausted"
MsgQuotaCaps ==
    <<"Q", "U", "O", "T", "A", " ", "e", "x", "h", "a", "u", "s", "t", "e",
      "d">>

\* "rate limit exceeded, retry in 2.5 seconds"
MsgHintSeconds ==
    <<"r", "a", "t", "e", " ", "l", "i", "m", "i", "t", " ", "e", "x", "c",
      "e", "e", "d", "e", "d", ",", " ", "r", "e", "t", "r", "y", " ", "i",
      "n", " ", "2", ".", "5", " ", "s", "e", "c", "o", "n", "d", "s">>

\* "please retry in 3 seconds"
MsgHintOnly ==
    <<"p", "l", "e", "a", "s", "e", " ", "r", "e", "t", "r", "y", " ", "i",
      "n", " ", "3", " ", "s", "e", "c", "o", "n", "d", "s">>

\* "quota hit, Retry In 0"
MsgHintZero ==
    <<"q", "u", "o", "t", "a", " ", "h", "i", "t", ",", " ", "R", "e", "t",
      "r", "y", " ", "I", "n", " ", "0">>

\* "500 quota, retry in 2.007"
MsgHintInexact ==
    <<"5", "0", "0", " ", "q", "u", "o", "t", "a", ",", " ", "r", "e", "t",
      "r", "y", " ", "i", "n", " ", "2", ".", "0", "0", "7">>

MsgEmpty == <<>>

Messages == {Msg429, Msg503, MsgDenied, MsgRateLimitCaps, MsgQuotaCaps,
             MsgHintSeconds, MsgHintOnly, MsgHintZero, MsgHintInexact,
             MsgEmpty}

\* an error object: who created it (the operation on its n-th invocation,
\* or retryWithBackoff itself), and its message property, which may be absent
FnError(k, hasMessage, message) ==
    [by |-> "fn", n |-> k, hasMessage |-> hasMessage, message |-> message]

NewError(message) ==
    [by |-> "retryWithBackoff", n |-> 0, hasMessage |-> TRUE, message |-> message]

\* the initial value of lastError
Undefined == [by |-> "nobody", n |-> 0, hasMessage |-> FALSE, message |-> <<>>]

\* what one invocation of fn may reject with: any message, or none at all
Rejections == {[hasMessage |-> TRUE, message |-> m] : m \in Messages}
              \cup {[hasMessage |-> FALSE, message |-> <<>>]}

\* what one invocation of fn may resolve with
Values == {"v1", "v2"}


\* ------------------------------------------------------------------------
\* The pure parts of retryWithBackoff
\* ------------------------------------------------------------------------
Str429 == <<"4", "2", "9">>

StrQuota == <<"q", "u", "o", "t", "a">>

StrRateLimit == <<"r", "a", "t", "e", " ", "l", "i", "m", "i", "t">>

Str500 == <<"5", "0", "0">>

Str503 == <<"5", "0", "3">>

StrUndefined == <<"u", "n", "d", "e", "f", "i", "n", "e", "d">>

StrMaxRetries == <<"M", "a", "x", " ", "r", "e", "t", "r", "i", "e", "s", " ", "(">>

StrReached ==
    <<")", " ", "r", "e", "a", "c", "h", "e", "d", ".", " ", "L", "a", "s", "t", " ", "e", "r", "r", "o", "r", ":", " ">>

StrUnknown ==
    <<"R", "e", "t", "r", "y", " ", "f", "a", "i", "l", "e", "d", " ", "w", "i", "t", "h", " ", "u", "n", "k", "n", "o", "w", "n", " ", "e", "r", "r", "o", "r">>

\* the defaults standing in for the whole options object only: a field is
\* read from the caller's object as soon as the object has any field
OptionOrWholeObject(opts, field, default) ==
    IF DOMAIN opts = {} THEN default
    ELSE IF field \in DOMAIN opts THEN opts[field] ELSE Num(0)

\* options.<field> when the caller set it, the destructuring default otherwise
OptionOr(opts, field, default) ==
    IF field \in DOMAIN opts THEN opts[field] ELSE default

DefaultMaxRetries == 5

DefaultInitialDelay == 1000

DefaultMaxDelay == 60000

DefaultBackoffMultiplier == 2

\* a missing message taken for a match
MessageIncludesLoose(error, s) == ~error.hasMessage \/ Includes(error.message, s)

\* error.message?.includes(s): undefined, hence falsy, without a message
MessageIncludes(error, s) == error.hasMessage /\ Includes(error.message, s)

isRateLimitError(error) ==
    \/ MessageIncludes(error, Str429)
    \/ MessageIncludes(error, StrQuota)
    \/ MessageIncludes(error, StrRateLimit)

\* the server-error test without the "503" alternative
isServerErrorOnly500(error) == MessageIncludes(error, Str500)

isServerError(error) ==
    \/ MessageIncludes(error, Str500)
    \/ MessageIncludes(error, Str503)

\* a "retry in" hint taken as a reason to retry
IsRetryableOrHinted(error) ==
    \/ isRateLimitError(error)
    \/ isServerError(error)
    \/ error.hasMessage /\ RetryAfterMatch(error.message).found

\* the negation of the test that guards "throw error"
IsRetryable(error) == isRateLimitError(error) \/ isServerError(error)

\* error.message?.match(/retry in (\d+(?:\.\d+)?)/i)
retryAfterMatch(error) ==
    IF error.hasMessage THEN RetryAfterMatch(error.message)
    ELSE [found |-> FALSE, int |-> <<>>, frac |-> <<>>]

\* the cap applied to the backoff delay but not to a hint
WaitTimeCapsDelayOnly(error, d, maxD) ==
    LET m == retryAfterMatch(error)
    IN  IF m.found THEN Num(HintMillis(m)) ELSE MathMin(d, maxD)

\* the hint taken only when it is longer than the current delay
WaitTimeAtLeastDelay(error, d, maxD) ==
    LET m == retryAfterMatch(error)
        h == Num(HintMillis(m))
    IN  MathMin(IF m.found /\ Leq(d, h) THEN h ELSE d, maxD)

\* the wait without the Math.min(waitTime, maxDelay) line
WaitTimeUncapped(error, d, maxD) ==
    LET m == retryAfterMatch(error)
    IN  IF m.found THEN Num(HintMillis(m)) ELSE d

\* the value of waitTime when setTimeout is called
WaitTime(error, d, maxD) ==
    LET m == retryAfterMatch(error)
    IN  MathMin(IF m.found THEN Num(HintMillis(m)) ELSE d, maxD)

\* `${error.message}`
MessageText(error) == IF error.hasMessage THEN error.message ELSE StrUndefined

\* the last error rethrown as it is, instead of the "Max retries" error
MaxRetriesErrorRethrown(mr, error) == error

\* new Error(`Max retries (${maxRetries}) reached. Last error: ${error.message}`)
MaxRetriesError(mr, error) ==
    NewError(StrMaxRetries \o NumToString(mr.n) \o StrReached \o MessageText(error))

\* the console.log line with the loop counter as it is, not counted from 1
NoticeZeroBased(a, mr, w, error) ==
    [attempt |-> a, maxRetries |-> mr, waitTime |-> w,
     error |-> Substring0(error.message, 100)]

\* the console.log line, as the tuple of its interpolated parts
Notice(a, mr, w, error) ==
    [attempt |-> a + 1, maxRetries |-> mr, waitTime |-> w,
     error |-> Substring0(error.message, 100)]

\* the delay grown without the cap
NextDelayUncapped(d, mult, maxD) == Times(d, mult)

\* delay = Math.min(delay * backoffMultiplier, maxDelay)
NextDelay(d, mult, maxD) == MathMin(Times(d, mult), maxD)

\* the loop counter started one too early
InitialAttemptEarly == 0 - 1

\* "let attempt = 0"
InitialAttempt == 0

\* the test short-circuited on a falsy attempt: "attempt && attempt === maxRetries"
IsLastAttemptUnlessFirst(a, mr) == a # 0 /\ Num(a) = mr

\* the last attempt recognised one pass too late
IsLastAttemptLate(a, mr) == Num(a - 1) = mr

\* attempt === maxRetries
IsLastAttempt(a, mr) == Num(a) = mr

\* lastError || new Error('Retry failed with unknown error')
FallbackError(last) == IF last = Undefined THEN NewError(StrUnknown) ELSE last

\* ------------------------------------------------------------------------
\* State: one activation of retryWithBackoff per call identifier
\* ------------------------------------------------------------------------
Calls == {1, 2}

VARIABLES
    pc,                \* where the call is: idle, fn (awaiting fn()),
                       \* sleep (awaiting the timer), returned, thrown
    options,           \* the caller's options object
    maxRetries, initialDelay, maxDelay, backoffMultiplier,
    lastError, delay, attempt,
    trace,             \* what each invocation of fn settled with, in order
    waits,             \* the durations passed to setTimeout, in order
    notices,           \* the console.log lines, in order
    returned,          \* the value the call resolved with
    thrown             \* the error the call rejected with

vars == <<pc, options, maxRetries, initialDelay, maxDelay, backoffMultiplier,
          lastError, delay, attempt, trace, waits, notices, returned, thrown>>

NoValue == [n |-> 0, v |-> "none"]

\* number of invocations of fn so far, the pending one included
Invocations(c) == Len(trace[c]) + (IF pc[c] = "fn" THEN 1 ELSE 0)

Init ==
    /\ pc = [c \in Calls |-> "idle"]
    /\ options = [c \in Calls |-> NoOptions]
    /\ maxRetries = [c \in Calls |-> Num(0)]
    /\ initialDelay = [c \in Calls |-> Num(0)]
    /\ maxDelay = [c \in Calls |-> Num(0)]
    /\ backoffMultiplier = [c \in Calls |-> Num(0)]
    /\ lastError = [c \in Calls |-> Undefined]
    /\ delay = [c \in Calls |-> Num(0)]
    /\ attempt = [c \in Calls |-> 0]
    /\ trace = [c \in Calls |-> <<>>]
    /\ waits = [c \in Calls |-> <<>>]
    /\ notices = [c \in Calls |-> <<>>]
    /\ returned = [c \in Calls |-> NoValue]
    /\ thrown = [c \in Calls |-> Undefined]

\* the loop condition written "attempt < maxRetries"
LoopHeadStrict(c, a, mr, last) ==
    IF Less(Num(a), mr)
    THEN /\ pc' = [pc EXCEPT ![c] = "fn"]
         /\ thrown' = thrown
    ELSE /\ pc' = [pc EXCEPT ![c] = "thrown"]
         /\ thrown' = [thrown EXCEPT ![c] = FallbackError(last)]

\* the loop head "attempt <= maxRetries" reached with attempt = a: either fn
\* is invoked and awaited, or the loop is left and line 77 throws
LoopHead(c, a, mr, last) ==
    IF Leq(Num(a), mr)
    THEN /\ pc' = [pc EXCEPT ![c] = "fn"]
         /\ thrown' = thrown
    ELSE /\ pc' = [pc EXCEPT ![c] = "thrown"]
         /\ thrown' = [thrown EXCEPT ![c] = FallbackError(last)]

\* the delay kept where the call before left it, as a module-level variable
\* would be
CallWithCarriedDelay(c, opts) ==
    /\ pc[c] = "idle"
    /\ LET mr == OptionOr(opts, "maxRetries", Num(DefaultMaxRetries))
           id == OptionOr(opts, "initialDelay", Num(DefaultInitialDelay))
           before == {d \in Calls : pc[d] # "idle"}
       IN  /\ options' = [options EXCEPT ![c] = opts]
           /\ maxRetries' = [maxRetries EXCEPT ![c] = mr]
           /\ initialDelay' = [initialDelay EXCEPT ![c] = id]
           /\ maxDelay' = [maxDelay EXCEPT ![c] =
                  OptionOr(opts, "maxDelay", Num(DefaultMaxDelay))]
           /\ backoffMultiplier' = [backoffMultiplier EXCEPT ![c] =
                  OptionOr(opts, "backoffMultiplier", Num(DefaultBackoffMultiplier))]
           /\ lastError' = [lastError EXCEPT ![c] = Undefined]
           /\ delay' = [delay EXCEPT ![c] =
                  IF before = {} THEN id ELSE delay[CHOOSE d \in before : TRUE]]
           /\ attempt' = [attempt EXCEPT ![c] = InitialAttempt]
           /\ LoopHead(c, InitialAttempt, mr, Undefined)
    /\ UNCHANGED <<trace, waits, notices, returned>>

\* retryWithBackoff(fn, opts) is called: defaults, let-bindings, and the
\* first pass through the loop head up to "await fn()"
Call(c, opts) ==
    /\ pc[c] = "idle"
    /\ LET mr == OptionOr(opts, "maxRetries", Num(DefaultMaxRetries))
           id == OptionOr(opts, "initialDelay", Num(DefaultInitialDelay))
       IN  /\ options' = [options EXCEPT ![c] = opts]
           /\ maxRetries' = [maxRetries EXCEPT ![c] = mr]
           /\ initialDelay' = [initialDelay EXCEPT ![c] = id]
           /\ maxDelay' = [maxDelay EXCEPT ![c] =
                  OptionOr(opts, "maxDelay", Num(DefaultMaxDelay))]
           /\ backoffMultiplier' = [backoffMultiplier EXCEPT ![c] =
                  OptionOr(opts, "backoffMultiplier", Num(DefaultBackoffMultiplier))]
           /\ lastError' = [lastError EXCEPT ![c] = Undefined]
           /\ delay' = [delay EXCEPT ![c] = id]
           /\ attempt' = [attempt EXCEPT ![c] = InitialAttempt]
           /\ LoopHead(c, InitialAttempt, mr, Undefined)
    /\ UNCHANGED <<trace, waits, notices, returned>>

\* "await fn()" without the return: the loop goes on after a success
ResolveWithoutReturn(c, v) ==
    /\ pc[c] = "fn"
    /\ trace' = [trace EXCEPT ![c] = Append(@, [ok |-> TRUE, value |-> v,
                     hasMessage |-> FALSE, message |-> <<>>])]
    /\ attempt' = [attempt EXCEPT ![c] = attempt[c] + 1]
    /\ LoopHead(c, attempt[c] + 1, maxRetries[c], lastError[c])
    /\ UNCHANGED <<options, maxRetries, initialDelay, maxDelay, backoffMultiplier,
                   lastError, delay, waits, notices, returned>>

\* fn() resolves with v: "return await fn()"
Resolve(c, v) ==
    /\ pc[c] = "fn"
    /\ trace' = [trace EXCEPT ![c] = Append(@, [ok |-> TRUE, value |-> v,
                     hasMessage |-> FALSE, message |-> <<>>])]
    /\ returned' = [returned EXCEPT ![c] = [n |-> Invocations(c), v |-> v]]
    /\ pc' = [pc EXCEPT ![c] = "returned"]
    /\ UNCHANGED <<options, maxRetries, initialDelay, maxDelay, backoffMultiplier,
                   lastError, delay, attempt, waits, notices, thrown>>

\* every error that ends the call wrapped in the "Max retries" error
RejectFatalWrapped(c, rej) ==
    LET error == FnError(Invocations(c), rej.hasMessage, rej.message)
    IN  /\ pc[c] = "fn"
        /\ ~IsRetryable(error)
        /\ trace' = [trace EXCEPT ![c] = Append(@, [ok |-> FALSE, value |-> "none",
                         hasMessage |-> rej.hasMessage, message |-> rej.message])]
        /\ lastError' = [lastError EXCEPT ![c] = error]
        /\ thrown' = [thrown EXCEPT ![c] = MaxRetriesError(maxRetries[c], error)]
        /\ pc' = [pc EXCEPT ![c] = "thrown"]
        /\ UNCHANGED <<options, maxRetries, initialDelay, maxDelay,
                       backoffMultiplier, delay, attempt, waits, notices, returned>>

\* the "attempt === maxRetries" test made before the classification, so that
\* a non-retryable error on the last attempt is replaced as well
RejectFatalAfterLastAttemptTest(c, rej) ==
    LET error == FnError(Invocations(c), rej.hasMessage, rej.message)
    IN  /\ pc[c] = "fn"
        /\ ~IsRetryable(error)
        /\ trace' = [trace EXCEPT ![c] = Append(@, [ok |-> FALSE, value |-> "none",
                         hasMessage |-> rej.hasMessage, message |-> rej.message])]
        /\ lastError' = [lastError EXCEPT ![c] = error]
        /\ thrown' = [thrown EXCEPT ![c] =
                         IF IsLastAttempt(attempt[c], maxRetries[c])
                         THEN MaxRetriesError(maxRetries[c], error) ELSE error]
        /\ pc' = [pc EXCEPT ![c] = "thrown"]
        /\ UNCHANGED <<options, maxRetries, initialDelay, maxDelay,
                       backoffMultiplier, delay, attempt, waits, notices, returned>>

\* fn() rejects with an error that is not retryable: "throw error"
RejectFatal(c, rej) ==
    LET error == FnError(Invocations(c), rej.hasMessage, rej.message)
    IN  /\ pc[c] = "fn"
        /\ ~IsRetryable(error)
        /\ trace' = [trace EXCEPT ![c] = Append(@, [ok |-> FALSE, value |-> "none",
                         hasMessage |-> rej.hasMessage, message |-> rej.message])]
        /\ lastError' = [lastError EXCEPT ![c] = error]
        /\ thrown' = [thrown EXCEPT ![c] = error]
        /\ pc' = [pc EXCEPT ![c] = "thrown"]
        /\ UNCHANGED <<options, maxRetries, initialDelay, maxDelay,
                       backoffMultiplier, delay, attempt, waits, notices, returned>>

\* the last retryable failure caught and dropped: the call resolves
RejectExhaustedSwallowed(c, rej) ==
    LET error == FnError(Invocations(c), rej.hasMessage, rej.message)
    IN  /\ pc[c] = "fn"
        /\ IsRetryable(error)
        /\ IsLastAttempt(attempt[c], maxRetries[c])
        /\ trace' = [trace EXCEPT ![c] = Append(@, [ok |-> FALSE, value |-> "none",
                         hasMessage |-> rej.hasMessage, message |-> rej.message])]
        /\ lastError' = [lastError EXCEPT ![c] = error]
        /\ returned' = [returned EXCEPT ![c] = [n |-> Invocations(c), v |-> "undefined"]]
        /\ pc' = [pc EXCEPT ![c] = "returned"]
        /\ UNCHANGED <<options, maxRetries, initialDelay, maxDelay,
                       backoffMultiplier, delay, attempt, waits, notices, thrown>>

\* fn() rejects with a retryable error on attempt maxRetries: the
\* "Max retries" error is thrown
RejectExhausted(c, rej) ==
    LET error == FnError(Invocations(c), rej.hasMessage, rej.message)
    IN  /\ pc[c] = "fn"
        /\ IsRetryable(error)
        /\ IsLastAttempt(attempt[c], maxRetries[c])
        /\ trace' = [trace EXCEPT ![c] = Append(@, [ok |-> FALSE, value |-> "none",
                         hasMessage |-> rej.hasMessage, message |-> rej.message])]
        /\ lastError' = [lastError EXCEPT ![c] = error]
        /\ thrown' = [thrown EXCEPT ![c] = MaxRetriesError(maxRetries[c], error)]
        /\ pc' = [pc EXCEPT ![c] = "thrown"]
        /\ UNCHANGED <<options, maxRetries, initialDelay, maxDelay,
                       backoffMultiplier, delay, attempt, waits, notices, returned>>

\* the delay grown before the wait instead of after it
RejectRetryGrowsDelayFirst(c, rej) ==
    LET error == FnError(Invocations(c), rej.hasMessage, rej.message)
        w     == WaitTime(error, delay[c], maxDelay[c])
    IN  /\ pc[c] = "fn"
        /\ IsRetryable(error)
        /\ ~IsLastAttempt(attempt[c], maxRetries[c])
        /\ trace' = [trace EXCEPT ![c] = Append(@, [ok |-> FALSE, value |-> "none",
                         hasMessage |-> rej.hasMessage, message |-> rej.message])]
        /\ lastError' = [lastError EXCEPT ![c] = error]
        /\ notices' = [notices EXCEPT ![c] =
                          Append(@, Notice(attempt[c], maxRetries[c], w, error))]
        /\ waits' = [waits EXCEPT ![c] = Append(@, w)]
        /\ delay' = [delay EXCEPT ![c] =
                        NextDelay(delay[c], backoffMultiplier[c], maxDelay[c])]
        /\ pc' = [pc EXCEPT ![c] = "sleep"]
        /\ UNCHANGED <<options, maxRetries, initialDelay, maxDelay,
                       backoffMultiplier, attempt, returned, thrown>>

\* a promise awaited that nothing resolves: no timer is set
RejectRetryWithoutTimer(c, rej) ==
    LET error == FnError(Invocations(c), rej.hasMessage, rej.message)
        w     == WaitTime(error, delay[c], maxDelay[c])
    IN  /\ pc[c] = "fn"
        /\ IsRetryable(error)
        /\ ~IsLastAttempt(attempt[c], maxRetries[c])
        /\ trace' = [trace EXCEPT ![c] = Append(@, [ok |-> FALSE, value |-> "none",
                         hasMessage |-> rej.hasMessage, message |-> rej.message])]
        /\ lastError' = [lastError EXCEPT ![c] = error]
        /\ notices' = [notices EXCEPT ![c] =
                          Append(@, Notice(attempt[c], maxRetries[c], w, error))]
        /\ waits' = [waits EXCEPT ![c] = Append(@, w)]
        /\ pc' = [pc EXCEPT ![c] = "pending"]
        /\ UNCHANGED <<options, maxRetries, initialDelay, maxDelay,
                       backoffMultiplier, delay, attempt, returned, thrown>>

\* the timer promise not awaited: the next pass starts while the timer runs
RejectRetryWithoutAwait(c, rej) ==
    LET error == FnError(Invocations(c), rej.hasMessage, rej.message)
        w     == WaitTime(error, delay[c], maxDelay[c])
    IN  /\ pc[c] = "fn"
        /\ IsRetryable(error)
        /\ ~IsLastAttempt(attempt[c], maxRetries[c])
        /\ trace' = [trace EXCEPT ![c] = Append(@, [ok |-> FALSE, value |-> "none",
                         hasMessage |-> rej.hasMessage, message |-> rej.message])]
        /\ lastError' = [lastError EXCEPT ![c] = error]
        /\ notices' = [notices EXCEPT ![c] =
                          Append(@, Notice(attempt[c], maxRetries[c], w, error))]
        /\ waits' = [waits EXCEPT ![c] = Append(@, w)]
        /\ delay' = [delay EXCEPT ![c] =
                        NextDelay(delay[c], backoffMultiplier[c], maxDelay[c])]
        /\ attempt' = [attempt EXCEPT ![c] = attempt[c] + 1]
        /\ pc' = [pc EXCEPT ![c] = "fn"]
        /\ UNCHANGED <<options, maxRetries, initialDelay, maxDelay,
                       backoffMultiplier, returned, thrown>>

\* the wait halved or not, by chance
RejectRetryWithJitter(c, rej) ==
    LET error == FnError(Invocations(c), rej.hasMessage, rej.message)
    IN  \E jitter \in {Num(1), Rat(1, 2)} :
        LET w == Times(WaitTime(error, delay[c], maxDelay[c]), jitter)
        IN  /\ pc[c] = "fn"
            /\ IsRetryable(error)
            /\ ~IsLastAttempt(attempt[c], maxRetries[c])
            /\ trace' = [trace EXCEPT ![c] = Append(@, [ok |-> FALSE, value |-> "none",
                             hasMessage |-> rej.hasMessage, message |-> rej.message])]
            /\ lastError' = [lastError EXCEPT ![c] = error]
            /\ notices' = [notices EXCEPT ![c] =
                              Append(@, Notice(attempt[c], maxRetries[c], w, error))]
            /\ waits' = [waits EXCEPT ![c] = Append(@, w)]
            /\ pc' = [pc EXCEPT ![c] = "sleep"]
            /\ UNCHANGED <<options, maxRetries, initialDelay, maxDelay,
                           backoffMultiplier, delay, attempt, returned, thrown>>

\* fn() rejects with a retryable error and attempts remain: the wait is
\* computed and logged, and the timer is started
RejectRetry(c, rej) ==
    LET error == FnError(Invocations(c), rej.hasMessage, rej.message)
        w     == WaitTime(error, delay[c], maxDelay[c])
    IN  /\ pc[c] = "fn"
        /\ IsRetryable(error)
        /\ ~IsLastAttempt(attempt[c], maxRetries[c])
        /\ trace' = [trace EXCEPT ![c] = Append(@, [ok |-> FALSE, value |-> "none",
                         hasMessage |-> rej.hasMessage, message |-> rej.message])]
        /\ lastError' = [lastError EXCEPT ![c] = error]
        /\ notices' = [notices EXCEPT ![c] =
                          Append(@, Notice(attempt[c], maxRetries[c], w, error))]
        /\ waits' = [waits EXCEPT ![c] = Append(@, w)]
        /\ pc' = [pc EXCEPT ![c] = "sleep"]
        /\ UNCHANGED <<options, maxRetries, initialDelay, maxDelay,
                       backoffMultiplier, delay, attempt, returned, thrown>>

\* the delay left as it is after a wait that a hint gave
TimerFiresKeepsDelayAfterHint(c) ==
    /\ pc[c] = "sleep"
    /\ delay' = [delay EXCEPT ![c] =
                    IF retryAfterMatch(lastError[c]).found THEN delay[c]
                    ELSE NextDelay(delay[c], backoffMultiplier[c], maxDelay[c])]
    /\ attempt' = [attempt EXCEPT ![c] = attempt[c] + 1]
    /\ LoopHead(c, attempt[c] + 1, maxRetries[c], lastError[c])
    /\ UNCHANGED <<options, maxRetries, initialDelay, maxDelay, backoffMultiplier,
                   lastError, trace, waits, notices, returned>>

\* the delay kept in one variable that all activations share
TimerFiresSharedDelay(c) ==
    /\ pc[c] = "sleep"
    /\ delay' = [d \in Calls |->
                    NextDelay(delay[c], backoffMultiplier[c], maxDelay[c])]
    /\ attempt' = [attempt EXCEPT ![c] = attempt[c] + 1]
    /\ LoopHead(c, attempt[c] + 1, maxRetries[c], lastError[c])
    /\ UNCHANGED <<options, maxRetries, initialDelay, maxDelay, backoffMultiplier,
                   lastError, trace, waits, notices, returned>>

\* the timer fires: the delay grows, attempt++ and the loop head is passed
TimerFires(c) ==
    /\ pc[c] = "sleep"
    /\ delay' = [delay EXCEPT ![c] =
                    NextDelay(delay[c], backoffMultiplier[c], maxDelay[c])]
    /\ attempt' = [attempt EXCEPT ![c] = attempt[c] + 1]
    /\ LoopHead(c, attempt[c] + 1, maxRetries[c], lastError[c])
    /\ UNCHANGED <<options, maxRetries, initialDelay, maxDelay, backoffMultiplier,
                   lastError, trace, waits, notices, returned>>

\* one caller, one call
Next ==
    \/ \E opts \in OptionsTried : Call(1, opts)
    \/ \E v \in Values : Resolve(1, v)
    \/ \E rej \in Rejections : RejectFatal(1, rej)
    \/ \E rej \in Rejections : RejectExhausted(1, rej)
    \/ \E rej \in Rejections : RejectRetry(1, rej)
    \/ TimerFires(1)

Spec == Init /\ [][Next]_vars

\* the promise fn() returned settles, one way or the other
Settles(c) ==
    \/ \E v \in Values : Resolve(c, v)
    \/ \E rej \in Rejections : RejectFatal(c, rej)
    \/ \E rej \in Rejections : RejectExhausted(c, rej)
    \/ \E rej \in Rejections : RejectRetry(c, rej)

\* the one call, with an operation whose promise always settles and an
\* event loop that runs every timer that is due
FairSpec == Spec /\ WF_vars(Settles(1)) /\ WF_vars(TimerFires(1))

\* largest maxRetries tried when two calls are made
MaxRetriesTwo == 2

OptionsTwo ==
    {[maxRetries |-> Num(r), initialDelay |-> Num(1000),
      maxDelay |-> Num(5000), backoffMultiplier |-> Num(2)] : r \in 0..MaxRetriesTwo}
    \cup {[maxRetries |-> Num(1), initialDelay |-> Num(500)]}

RejectionsTwo ==
    {[hasMessage |-> TRUE, message |-> m] : m \in {Msg429, MsgDenied, MsgHintSeconds}}

\* two calls of retryWithBackoff, made at any time: one after the other has
\* ended, or while it is awaiting fn() or its timer
NextTwo ==
    \E c \in Calls :
        \/ \E opts \in OptionsTwo : Call(c, opts)
        \/ \E v \in Values : Resolve(c, v)
        \/ \E rej \in RejectionsTwo : RejectFatal(c, rej)
        \/ \E rej \in RejectionsTwo : RejectExhausted(c, rej)
        \/ \E rej \in RejectionsTwo : RejectRetry(c, rej)
        \/ TimerFires(c)

SpecTwo == Init /\ [][NextTwo]_vars


\* ------------------------------------------------------------------------
\* Properties
\* ------------------------------------------------------------------------
\* the call has been made with a non-negative integer maxRetries
NatRetries(c) == pc[c] # "idle" /\ IsInteger(maxRetries[c]) /\ maxRetries[c].n >= 0

\* the error object the k-th invocation of fn rejected with
Failure(c, k) == FnError(k, trace[c][k].hasMessage, trace[c][k].message)

Failed(c, k) == k \in 1..Len(trace[c]) /\ ~trace[c][k].ok

\* C1: with a non-negative integer maxRetries the operation is invoked at
\* most maxRetries + 1 times, and once invocation k + 1 (attempt k) has
\* succeeded the number of invocations is exactly k + 1.
C1_InvocationCount ==
    \A c \in Calls : NatRetries(c) =>
        /\ Invocations(c) <= maxRetries[c].n + 1
        /\ \A k \in 1..Len(trace[c]) : trace[c][k].ok => Invocations(c) = k

\* a success on the last permitted attempt, after two retryable failures
C1_Witness ==
    /\ pc[1] = "returned"
    /\ maxRetries[1] = Num(2)
    /\ Invocations(1) = 3
    /\ \A k \in 1..2 : Failed(1, k) /\ IsRetryable(Failure(1, k))

\* C2: a failure that is not classified retryable, on whichever attempt, is
\* propagated as the very error object the operation raised, with no wait
\* and no invocation after it; an operation failing with "permission denied"
\* is invoked once, with no wait.
C2_FatalPropagated ==
    \A c \in Calls :
        /\ \A k \in 1..Len(trace[c]) :
              (Failed(c, k) /\ ~IsRetryable(Failure(c, k))) =>
                  /\ pc[c] = "thrown"
                  /\ thrown[c] = Failure(c, k)
                  /\ Invocations(c) = k
                  /\ Len(waits[c]) = k - 1
        /\ (Failed(c, 1) /\ Failure(c, 1).message = MsgDenied) =>
              /\ Invocations(c) = 1
              /\ waits[c] = <<>>
              /\ thrown[c] = FnError(1, TRUE, MsgDenied)

\* a non-retryable failure on the last permitted attempt, after a retry
C2_Witness ==
    /\ pc[1] = "thrown"
    /\ NatRetries(1)
    /\ Invocations(1) >= 2
    /\ Invocations(1) = maxRetries[1].n + 1
    /\ thrown[1] = FnError(Invocations(1), TRUE, MsgDenied)

\* C3: a retryable failure on attempt maxRetries ends the call without a
\* wait and with a synthesized "Max retries" error whose message embeds
\* maxRetries and the message of that failure; always "503" with
\* maxRetries = 3 gives 4 invocations and a message containing "3" and "503".
C3_Exhausted ==
    \A c \in Calls :
        LET k == Invocations(c) IN
        /\ (NatRetries(c) /\ k = maxRetries[c].n + 1
               /\ Failed(c, k) /\ IsRetryable(Failure(c, k))) =>
              /\ pc[c] = "thrown"
              /\ thrown[c].by = "retryWithBackoff"
              /\ StartsAt(thrown[c].message, StrMaxRetries, 1)
              /\ Includes(thrown[c].message, NumToString(maxRetries[c].n))
              /\ Includes(thrown[c].message, Failure(c, k).message)
              /\ Len(waits[c]) = maxRetries[c].n
        /\ (/\ pc[c] \in {"returned", "thrown"}
            /\ maxRetries[c] = Num(3)
            /\ \A j \in 1..k : Failed(c, j) /\ Failure(c, j).message = Msg503) =>
              /\ k = 4
              /\ Includes(thrown[c].message, <<"3">>)
              /\ Includes(thrown[c].message, Msg503)

\* the operation failed with "503" four times under maxRetries = 3
C3_Witness ==
    /\ pc[1] = "thrown"
    /\ maxRetries[1] = Num(3)
    /\ Invocations(1) = 4
    /\ \A j \in 1..4 : Failed(1, j) /\ Failure(1, j).message = Msg503

\* C4: a success of invocation k ends the call at once with exactly that
\* invocation's result, and a value is returned in no other way.
C4_SuccessReturned ==
    \A c \in Calls :
        /\ \A k \in 1..Len(trace[c]) : trace[c][k].ok =>
              /\ pc[c] = "returned"
              /\ Invocations(c) = k
              /\ returned[c] = [n |-> k, v |-> trace[c][k].value]
              /\ Len(waits[c]) = k - 1
        /\ pc[c] = "returned" =>
              Invocations(c) >= 1 /\ trace[c][Invocations(c)].ok
        /\ pc[c] # "returned" => returned[c] = NoValue

\* the second invocation succeeded and its value was returned
C4_Witness ==
    /\ pc[1] = "returned"
    /\ Invocations(1) = 2
    /\ returned[1] = [n |-> 2, v |-> "v2"]


\* the k-th invocation failed and the failure was taken for retryable: a
\* wait followed it, or it ended the call with the "Max retries" error
TakenForRetryable(c, k) ==
    \/ Len(waits[c]) >= k
    \/ /\ Invocations(c) = k
       /\ pc[c] = "thrown"
       /\ thrown[c].by = "retryWithBackoff"

\* the k-th invocation failed and the failure was taken for fatal
TakenForFatal(c, k) ==
    /\ Invocations(c) = k
    /\ pc[c] = "thrown"
    /\ thrown[c] = Failure(c, k)
    /\ Len(waits[c]) = k - 1

\* C5: an error whose message contains one of "429", "quota", "rate limit",
\* "500", "503" is retryable, whatever else the message contains; an error
\* whose message contains none of them in any letter case is not.
C5_Classification ==
    \A c \in Calls : \A k \in 1..Len(trace[c]) :
        (Failed(c, k) /\ trace[c][k].hasMessage) =>
            LET m == trace[c][k].message IN
            /\ (\E s \in {Str429, StrQuota, StrRateLimit, Str500, Str503} :
                    Includes(m, s)) => TakenForRetryable(c, k)
            /\ (\A s \in {Str429, StrQuota, StrRateLimit, Str500, Str503} :
                    ~IncludesIgnoreCase(m, s)) => TakenForFatal(c, k)

\* a "503" was retried, a message with two of the substrings was retried,
\* and "permission denied" was then propagated
C5_Witness ==
    /\ pc[1] = "thrown"
    /\ Invocations(1) = 3
    /\ Failure(1, 1).message = Msg503
    /\ Failure(1, 2).message = MsgHintInexact
    /\ Len(waits[1]) = 2
    /\ thrown[1] = FnError(3, TRUE, MsgDenied)

\* C6: "quota" and "rate limit" are matched in any letter case: an error
\* whose message has the phrase in another case, and no numeric code, is
\* retryable.
C6_PhraseAnyCase ==
    \A c \in Calls : \A k \in 1..Len(trace[c]) :
        (Failed(c, k) /\ trace[c][k].hasMessage) =>
            LET m == trace[c][k].message IN
            (IncludesIgnoreCase(m, StrQuota) \/ IncludesIgnoreCase(m, StrRateLimit))
                => TakenForRetryable(c, k)

\* C7: a failure whose message is absent or empty is not retryable: the
\* same error is propagated, with no wait after it.
C7_NoMessageFatal ==
    \A c \in Calls : \A k \in 1..Len(trace[c]) :
        (Failed(c, k) /\ (~trace[c][k].hasMessage \/ trace[c][k].message = <<>>))
            => TakenForFatal(c, k)

\* an error without a message ended the call on its second invocation
C7_Witness ==
    /\ pc[1] = "thrown"
    /\ Invocations(1) = 2
    /\ Len(waits[1]) = 1
    /\ thrown[1] = FnError(2, FALSE, <<>>)

\* no failure so far carried a "retry in" hint
HintFree(c) ==
    \A k \in 1..Len(trace[c]) :
        Failed(c, k) => ~retryAfterMatch(Failure(c, k)).found

\* the delay after j waits as the claim gives it
RECURSIVE ExpectedDelay(_, _)
ExpectedDelay(c, j) ==
    IF j = 0 THEN initialDelay[c]
    ELSE MathMin(Times(ExpectedDelay(c, j - 1), backoffMultiplier[c]), maxDelay[c])

\* C8: without hints, wait number j (from 0) is the delay clamped to
\* maxDelay, the delay being initialDelay at first and
\* min(delay * backoffMultiplier, maxDelay) after each wait; with 1000, 2,
\* 5000 the waits are 1000, 2000, 4000 and then 5000.
C8_BackoffSchedule ==
    \A c \in Calls : (pc[c] # "idle" /\ HintFree(c)) =>
        /\ \A j \in 1..Len(waits[c]) :
              waits[c][j] = MathMin(ExpectedDelay(c, j - 1), maxDelay[c])
        /\ delay[c] = ExpectedDelay(c, attempt[c] - InitialAttempt)
        /\ (/\ initialDelay[c] = Num(1000)
            /\ backoffMultiplier[c] = Num(2)
            /\ maxDelay[c] = Num(5000)) =>
              \A j \in 1..Len(waits[c]) :
                  waits[c][j] = Num(IF j = 1 THEN 1000 ELSE IF j = 2 THEN 2000
                                    ELSE IF j = 3 THEN 4000 ELSE 5000)

\* four waits without hints under 1000, 2, 5000, the timer of the last
\* one having fired
C8_Witness ==
    /\ HintFree(1)
    /\ initialDelay[1] = Num(1000)
    /\ backoffMultiplier[1] = Num(2)
    /\ maxDelay[1] = Num(5000)
    /\ waits[1] = <<Num(1000), Num(2000), Num(4000), Num(5000)>>
    /\ attempt[1] = 4
    /\ delay[1] = Num(5000)

\* C9: the wait after a retryable error with a "retry in <number>" hint is
\* the number as seconds, in milliseconds, rounded up to a whole
\* millisecond and clamped to maxDelay; "retry in 2.5 seconds" gives 2500.
C9_HintWait ==
    \A c \in Calls : \A j \in 1..Len(waits[c]) :
        LET m == retryAfterMatch(Failure(c, j)) IN
        m.found =>
            /\ waits[c][j] = MathMin(Num(ExactHintMillis(m)), maxDelay[c])
            /\ (Failure(c, j).message = MsgHintSeconds /\ Leq(Num(2500), maxDelay[c]))
                  => waits[c][j] = Num(2500)

\* C10: every wait is at most maxDelay, hint or not, and with initialDelay
\* above maxDelay the first backoff wait is maxDelay.
C10_WaitsCapped ==
    \A c \in Calls :
        /\ \A j \in 1..Len(waits[c]) : Leq(waits[c][j], maxDelay[c])
        /\ (/\ Len(waits[c]) >= 1
            /\ Less(maxDelay[c], initialDelay[c])
            /\ ~retryAfterMatch(Failure(c, 1)).found) => waits[c][1] = maxDelay[c]

\* initialDelay above maxDelay: a backoff wait and a hinted wait, both cut
\* down to maxDelay
C10_Witness ==
    /\ Less(maxDelay[1], initialDelay[1])
    /\ Len(waits[1]) = 2
    /\ ~retryAfterMatch(Failure(1, 1)).found
    /\ Failure(1, 2).message = MsgHintSeconds
    /\ waits[1] = <<maxDelay[1], maxDelay[1]>>


\* the call has ended
Done(c) == pc[c] \in {"returned", "thrown"}

\* C11: when a call ends by success, non-retryable failure or exhaustion,
\* the number of waits is the number of invocations minus one; one "429"
\* failure followed by a success gives the value after exactly one wait.
C11_WaitsBetweenInvocations ==
    \A c \in Calls :
        /\ (NatRetries(c) /\ Done(c)) => Len(waits[c]) = Invocations(c) - 1
        /\ (/\ Len(trace[c]) = 2
            /\ Failed(c, 1) /\ Failure(c, 1).message = Msg429
            /\ trace[c][2].ok) =>
              /\ pc[c] = "returned"
              /\ returned[c] = [n |-> 2, v |-> trace[c][2].value]
              /\ Len(waits[c]) = 1

\* "429", one wait, then the value
C11_Witness ==
    /\ pc[1] = "returned"
    /\ Len(trace[1]) = 2
    /\ Failure(1, 1).message = Msg429
    /\ returned[1] = [n |-> 2, v |-> "v1"]
    /\ Len(waits[1]) = 1

\* the step invokes fn for call c
InvokesFn(c) == Invocations(c)' = Invocations(c) + 1

\* C12: attempts are sequential: an invocation starts only when none is
\* pending, and, the first one apart, only on the firing of the timer that
\* was started for the retryable failure of the invocation before it.
C12_Sequential ==
    [][\A c \in Calls : InvokesFn(c) =>
          /\ pc[c] # "fn"
          /\ Invocations(c) = Len(trace[c])
          /\ \/ pc[c] = "idle" /\ trace[c] = <<>>
             \/ /\ pc[c] = "sleep"
                /\ Failed(c, Len(trace[c]))
                /\ IsRetryable(Failure(c, Len(trace[c])))
                /\ Len(waits[c]) = Len(trace[c])]_vars

\* the third invocation is pending, two timers having fired
C12_Witness ==
    /\ pc[1] = "fn"
    /\ Invocations(1) = 3
    /\ Len(trace[1]) = 2
    /\ Len(waits[1]) = 2


\* the configuration in force for an options object, as the data model
\* gives it
Effective(opts) ==
    [maxRetries        |-> IF "maxRetries" \in DOMAIN opts
                           THEN opts.maxRetries ELSE Num(5),
     initialDelay      |-> IF "initialDelay" \in DOMAIN opts
                           THEN opts.initialDelay ELSE Num(1000),
     maxDelay          |-> IF "maxDelay" \in DOMAIN opts
                           THEN opts.maxDelay ELSE Num(60000),
     backoffMultiplier |-> IF "backoffMultiplier" \in DOMAIN opts
                           THEN opts.backoffMultiplier ELSE Num(2)]

\* what a call alone does with configuration cfg when the invocations of
\* its operation settle as tr tells: the delay after j waits,
RECURSIVE SoloDelay(_, _)
SoloDelay(cfg, j) ==
    IF j = 0 THEN cfg.initialDelay
    ELSE MathMin(Times(SoloDelay(cfg, j - 1), cfg.backoffMultiplier), cfg.maxDelay)

\* the failures that are followed by a wait,
SoloRetried(cfg, tr) ==
    {k \in 1..Len(tr) :
        /\ ~tr[k].ok
        /\ IsRetryable(FnError(k, tr[k].hasMessage, tr[k].message))
        /\ Num(k - 1) # cfg.maxRetries}

\* the waits,
SoloWaits(cfg, tr) ==
    [j \in 1..Cardinality(SoloRetried(cfg, tr)) |->
        WaitTime(FnError(j, tr[j].hasMessage, tr[j].message),
                 SoloDelay(cfg, j - 1), cfg.maxDelay)]

\* and the outcome once the last invocation of tr has ended the call
SoloOutcome(cfg, tr) ==
    LET k == Len(tr)
        e == FnError(k, tr[k].hasMessage, tr[k].message)
    IN  IF tr[k].ok
        THEN [pc |-> "returned", returned |-> [n |-> k, v |-> tr[k].value],
              thrown |-> Undefined]
        ELSE [pc |-> "thrown", returned |-> NoValue,
              thrown |-> IF IsRetryable(e) THEN MaxRetriesError(cfg.maxRetries, e)
                         ELSE e]

\* call c is where a call alone would be
RunsAsAlone(c) ==
    pc[c] # "idle" =>
        LET cfg == Effective(options[c]) IN
        /\ waits[c] = SoloWaits(cfg, trace[c])
        /\ attempt[c] = Len(waits[c]) - (IF pc[c] = "sleep" THEN 1 ELSE 0)
        /\ delay[c] = SoloDelay(cfg, attempt[c])
        /\ Done(c) =>
              [pc |-> pc[c], returned |-> returned[c], thrown |-> thrown[c]]
                  = SoloOutcome(cfg, trace[c])

\* everything one activation holds
Activation(c) ==
    <<pc[c], options[c], maxRetries[c], initialDelay[c], maxDelay[c],
      backoffMultiplier[c], lastError[c], delay[c], attempt[c], trace[c],
      waits[c], notices[c], returned[c], thrown[c]>>

\* C13: calls that run concurrently share no state: a step of one call
\* leaves the other call as it was, and each call's attempts, waits and
\* outcome are those of the same call running alone with the same options
\* and the same outcomes of its operation.
C13_Independent ==
    /\ [](\A c \in Calls : RunsAsAlone(c))
    /\ [][\E c \in Calls : \A d \in Calls \ {c} : Activation(d)' = Activation(d)]_vars

\* both calls are waiting on their timers, with different options
C13_Witness ==
    /\ pc[1] = "sleep" /\ pc[2] = "sleep"
    /\ options[1] # options[2]
    /\ Len(waits[1]) = 2
    /\ Len(waits[2]) = 1
    /\ delay[1] # delay[2]


\* C14: each omitted option falls back to its default (5, 1000, 60000, 2)
\* whatever the other options are; a call without options whose operation
\* always fails retryably, without hints, invokes it 6 times with waits
\* 1000, 2000, 4000, 8000, 16000 and ends with the "Max retries" error.
C14_Defaults ==
    \A c \in Calls : pc[c] # "idle" =>
        /\ maxRetries[c] = (IF "maxRetries" \in DOMAIN options[c]
                            THEN options[c].maxRetries ELSE Num(5))
        /\ initialDelay[c] = (IF "initialDelay" \in DOMAIN options[c]
                              THEN options[c].initialDelay ELSE Num(1000))
        /\ maxDelay[c] = (IF "maxDelay" \in DOMAIN options[c]
                          THEN options[c].maxDelay ELSE Num(60000))
        /\ backoffMultiplier[c] = (IF "backoffMultiplier" \in DOMAIN options[c]
                                   THEN options[c].backoffMultiplier ELSE Num(2))
        /\ (/\ options[c] = NoOptions
            /\ Done(c)
            /\ HintFree(c)
            /\ \A k \in 1..Len(trace[c]) :
                  Failed(c, k) /\ IsRetryable(Failure(c, k))) =>
              /\ Invocations(c) = 6
              /\ waits[c] = <<Num(1000), Num(2000), Num(4000), Num(8000), Num(16000)>>
              /\ pc[c] = "thrown"
              /\ thrown[c].by = "retryWithBackoff"
              /\ StartsAt(thrown[c].message, StrMaxRetries \o <<"5">>, 1)

\* the call without options has failed six times, on "429" and "503"
C14_Witness ==
    /\ options[1] = NoOptions
    /\ pc[1] = "thrown"
    /\ Invocations(1) = 6
    /\ \A k \in 1..6 : Failed(1, k) /\ Failure(1, k).message \in {Msg429, Msg503}
    /\ Len(waits[1]) = 5


\* the call has ended inside the loop: by "return await fn()", by
\* "throw error" or by the "Max retries" throw
EndedInLoop(c) ==
    /\ Done(c)
    /\ trace[c] # <<>>
    /\ LET k == Len(trace[c]) IN
       \/ pc[c] = "returned" /\ trace[c][k].ok
       \/ /\ pc[c] = "thrown" /\ Failed(c, k) /\ ~IsRetryable(Failure(c, k))
          /\ thrown[c] = Failure(c, k)
       \/ /\ pc[c] = "thrown" /\ Failed(c, k) /\ IsRetryable(Failure(c, k))
          /\ Num(attempt[c]) = maxRetries[c]
          /\ thrown[c] = MaxRetriesError(maxRetries[c], Failure(c, k))

\* C15: with a non-negative integer maxRetries the statement after the loop
\* is never reached and "Retry failed with unknown error" is never thrown:
\* a call ends only in the step in which an invocation of fn settles, by
\* success, non-retryable failure or exhaustion.
C15_FallbackUnreachable ==
    /\ [](\A c \in Calls : NatRetries(c) =>
             /\ thrown[c] # NewError(StrUnknown)
             /\ Done(c) => EndedInLoop(c))
    /\ [][\A c \in Calls : (NatRetries(c)' /\ Done(c)' /\ ~Done(c)) =>
             pc[c] = "fn" /\ Len(trace[c]') = Len(trace[c]) + 1]_vars

\* a call with maxRetries 2 has ended in the loop, on its third failure
C15_Witness ==
    /\ NatRetries(1)
    /\ maxRetries[1] = Num(2)
    /\ pc[1] = "thrown"
    /\ Len(trace[1]) = 3
    /\ attempt[1] = 2
    /\ thrown[1].by = "retryWithBackoff"

\* C16: no error is swallowed: a call has at most one outcome, a value is
\* returned only when the last invocation of fn resolved, and a call that
\* is over after a failed last invocation has thrown that error or the
\* "Max retries" error made from it, and has returned nothing.
C16_NothingSwallowed ==
    \A c \in Calls :
        /\ (pc[c] = "returned") <=> (returned[c] # NoValue)
        /\ (pc[c] = "thrown") <=> (thrown[c] # Undefined)
        /\ ~(returned[c] # NoValue /\ thrown[c] # Undefined)
        /\ pc[c] = "returned" =>
              /\ trace[c] # <<>>
              /\ trace[c][Len(trace[c])].ok
              /\ returned[c].v = trace[c][Len(trace[c])].value
        /\ (Done(c) /\ Failed(c, Len(trace[c]))) =>
              /\ pc[c] = "thrown"
              /\ returned[c] = NoValue
              /\ \/ thrown[c] = Failure(c, Len(trace[c]))
                 \/ thrown[c] = MaxRetriesError(maxRetries[c], Failure(c, Len(trace[c])))

\* the call is over after two retried failures and a third one, exhausted
C16_Witness ==
    /\ pc[1] = "thrown"
    /\ Len(trace[1]) = 3
    /\ Failed(1, 3)
    /\ Failure(1, 3).message = Msg503
    /\ thrown[1] = MaxRetriesError(Num(2), Failure(1, 3))
    /\ returned[1] = NoValue


\* C18: one notice is logged in the step that starts each wait and in no
\* other step, so there are as many notices as waits; the j-th notice
\* carries the attempt number j, within 1..maxRetries, the configured
\* maxRetries and the duration of the j-th wait; the step that logs leaves
\* the outcome of the call untouched.
C18_Notices ==
    /\ [](\A c \in Calls :
             /\ Len(notices[c]) = Len(waits[c])
             /\ \A j \in 1..Len(notices[c]) :
                   /\ notices[c][j].attempt = j
                   /\ notices[c][j].waitTime = waits[c][j]
                   /\ notices[c][j].maxRetries = maxRetries[c]
                   /\ NatRetries(c) => notices[c][j].attempt \in 1..maxRetries[c].n
             /\ NatRetries(c) =>
                   Len(notices[c]) = Len(trace[c]) - (IF Done(c) THEN 1 ELSE 0))
    /\ [][\A c \in Calls :
             /\ notices[c]' # notices[c] <=> waits[c]' # waits[c]
             /\ notices[c]' # notices[c] =>
                   /\ Len(notices[c]') = Len(notices[c]) + 1
                   /\ pc[c] = "fn" /\ pc[c]' = "sleep"
                   /\ Failed(c, Len(trace[c]))'
                   /\ returned[c]' = returned[c] /\ thrown[c]' = thrown[c]
             /\ Done(c)' => notices[c]' = notices[c]]_vars

\* three notices, numbered 1, 2, 3 of 3, before a wait that a hint gave
C18_Witness ==
    /\ pc[1] = "sleep"
    /\ maxRetries[1] = Num(3)
    /\ Len(notices[1]) = 3
    /\ notices[1][3].attempt = 3
    /\ Failure(1, 3).message = MsgHintSeconds
    /\ notices[1][3].waitTime = Num(2500)
    /\ waits[1][3] = Num(2500)


\* C17: when every invocation of fn settles and every timer fires, a call
\* made with a non-negative integer maxRetries comes to an end, and the end
\* is one of three: the value of fn returned, a non-retryable error
\* thrown, or the "Max retries" error thrown on attempt maxRetries.
C17_Terminates ==
    \A c \in Calls : NatRetries(c) ~> (Done(c) /\ EndedInLoop(c))

\* a call with the default maxRetries has come to its end after five waits
C17_Witness ==
    /\ NatRetries(1)
    /\ maxRetries[1] = Num(5)
    /\ Done(1)
    /\ EndedInLoop(1)
    /\ Len(waits[1]) = 5
    /\ pc[1] = "returned"


\* every invocation of fn made by call c so far has resolved
AlwaysSucceeded(c) == \A k \in 1..Len(trace[c]) : trace[c][k].ok

\* C19: nothing is remembered from one call to the next: whatever the other
\* call has gone through, a call starts with attempt 0, the delay equal to
\* its own initialDelay, no last error and nothing waited; two calls with
\* the same options whose fn always resolves both return after one
\* invocation and no wait.
C19_NoMemory ==
    /\ [][\A c \in Calls : (pc[c] = "idle" /\ pc[c]' # "idle") =>
             /\ attempt[c]' = 0
             /\ delay[c]' = Effective(options[c]').initialDelay
             /\ initialDelay[c]' = delay[c]'
             /\ lastError[c]' = Undefined
             /\ trace[c]' = <<>> /\ waits[c]' = <<>> /\ notices[c]' = <<>>
             /\ pc[c]' = "fn" /\ Invocations(c)' = 1]_vars
    /\ [](\A c, d \in Calls :
             (/\ c # d /\ Done(c) /\ Done(d)
              /\ options[c] = options[d]
              /\ AlwaysSucceeded(c) /\ AlwaysSucceeded(d)) =>
                /\ pc[c] = "returned" /\ pc[d] = "returned"
                /\ Len(trace[c]) = 1 /\ Len(trace[d]) = 1
                /\ returned[c].n = 1 /\ returned[d].n = 1
                /\ waits[c] = <<>> /\ waits[d] = <<>>)

\* call 1 is over after two waits, its delay grown to 4000, and call 2 has
\* just started with the same options, at attempt 0 with a delay of 1000
C19_Witness ==
    /\ Done(1)
    /\ Len(waits[1]) = 2
    /\ delay[1] = Num(4000)
    /\ options[2] = options[1]
    /\ pc[2] = "fn"
    /\ trace[2] = <<>>
    /\ attempt[2] = 0
    /\ delay[2] = Num(1000)

\* s is an initial part of t
IsPrefix(s, t) == Len(s) <= Len(t) /\ \A k \in 1..Len(s) : s[k] = t[k]

\* C20: no jitter: two calls with the same options whose invocations of fn
\* settle the same way have waited the same durations and logged the same
\* notices; once both are over they have made the same number of
\* invocations and have the same outcome.
C20_Deterministic ==
    \A c, d \in Calls :
        (c # d /\ pc[c] # "idle" /\ pc[d] # "idle" /\ options[c] = options[d]) =>
            /\ trace[c] = trace[d] =>
                  /\ waits[c] = waits[d]
                  /\ notices[c] = notices[d]
                  /\ lastError[c] = lastError[d]
                  /\ (pc[c] = pc[d]) => (attempt[c] = attempt[d] /\ delay[c] = delay[d])
            /\ (Done(c) /\ Done(d) /\ IsPrefix(trace[c], trace[d])) =>
                  /\ trace[c] = trace[d]
                  /\ Invocations(c) = Invocations(d)
                  /\ pc[c] = pc[d]
                  /\ returned[c] = returned[d]
                  /\ thrown[c] = thrown[d]

\* both calls are over, exhausted, after the same three failures, one of
\* them with a hint
C20_Witness ==
    /\ pc[1] = "thrown" /\ pc[2] = "thrown"
    /\ options[1] = options[2]
    /\ trace[1] = trace[2]
    /\ Len(trace[1]) = 3
    /\ Failure(1, 2).message = MsgHintSeconds
    /\ waits[1] = <<Num(1000), Num(2500)>>
    /\ thrown[1].by = "retryWithBackoff"


\* the j-th failure of call c carried a "retry in" hint
Hinted(c, j) == Failed(c, j) /\ retryAfterMatch(Failure(c, j)).found

\* C21: a hint replaces the wait of its own attempt only: the delay is
\* multiplied and clamped after every wait, hinted or not, so a failure
\* without a hint waits what it would have waited had no hint occurred;
\* with 1000 and 2, "retry in 2.5" waits 2500 and the next failure,
\* without a hint, waits 2000.
C21_HintForOneAttempt ==
    \A c \in Calls : pc[c] # "idle" =>
        /\ delay[c] = ExpectedDelay(c, attempt[c])
        /\ \A j \in 1..Len(waits[c]) :
              ~Hinted(c, j) =>
                  waits[c][j] = MathMin(ExpectedDelay(c, j - 1), maxDelay[c])
        /\ (/\ Len(waits[c]) >= 2
            /\ initialDelay[c] = Num(1000)
            /\ backoffMultiplier[c] = Num(2)
            /\ Leq(Num(2500), maxDelay[c])
            /\ Failure(c, 1).message = MsgHintSeconds
            /\ ~Hinted(c, 2)) =>
              waits[c][1] = Num(2500) /\ waits[c][2] = Num(2000)

\* "retry in 2.5" waited 2500, then "429" waited 2000, then "503" 4000
C21_Witness ==
    /\ Len(trace[1]) >= 3
    /\ initialDelay[1] = Num(1000)
    /\ backoffMultiplier[1] = Num(2)
    /\ Failure(1, 1).message = MsgHintSeconds
    /\ Failure(1, 2).message = Msg429
    /\ Failure(1, 3).message = Msg503
    /\ waits[1] = <<Num(2500), Num(2000), Num(4000)>>


\* the milliseconds the code makes of the hint in each message tried
HintWait ==
    [msg \in Messages |->
        LET m == RetryAfterMatch(msg)
        IN  IF m.found THEN Num(HintMillis(m)) ELSE Num(0)]

\* C22: a hint in a retryable error's message decides the wait whichever
\* way it differs from the current delay: the wait is the hint's
\* milliseconds clamped to maxDelay, also when that is less than the delay,
\* and "Retry In 0" gives a wait of 0.
C22_HintPrecedence ==
    \A c \in Calls : \A j \in 1..Len(waits[c]) :
        Hinted(c, j) =>
            /\ waits[c][j] = MathMin(HintWait[Failure(c, j).message], maxDelay[c])
            /\ Failure(c, j).message = MsgHintZero => waits[c][j] = Num(0)
            /\ (/\ Failure(c, j).message = MsgHintSeconds
                /\ Leq(Num(2500), maxDelay[c])
                /\ Less(Num(2500), ExpectedDelay(c, j - 1))) =>
                  /\ waits[c][j] = Num(2500)
                  /\ Less(waits[c][j], MathMin(ExpectedDelay(c, j - 1), maxDelay[c]))

\* a backoff wait of 1000, a hinted wait of 0, and a hinted wait of 2500
\* taken while the delay was 4000
C22_Witness ==
    /\ Len(trace[1]) >= 3
    /\ Failure(1, 2).message = MsgHintZero
    /\ Failure(1, 3).message = MsgHintSeconds
    /\ waits[1] = <<Num(1000), Num(0), Num(2500)>>
    /\ delay[1] = Num(4000)
    /\ pc[1] = "sleep"


\* C23: without hints, and with a non-negative integer maxRetries and a
\* positive backoffMultiplier, each wait of a call is at least as long as
\* the wait before it.
C23_WaitsNeverShrink ==
    \A c \in Calls :
        (NatRetries(c) /\ HintFree(c) /\ Less(Num(0), backoffMultiplier[c])) =>
            \A j \in 1..(Len(waits[c]) - 1) : Leq(waits[c][j], waits[c][j + 1])


\* C24: with maxRetries = 0 fn is invoked once and nothing is waited or
\* logged: its value is returned, or its non-retryable error is thrown as
\* it is, or its retryable error gives the error "Max retries (0) reached.
\* Last error: " followed by the error's message.
C24_ZeroRetries ==
    \A c \in Calls : (pc[c] # "idle" /\ maxRetries[c] = Num(0)) =>
        /\ Invocations(c) = 1
        /\ waits[c] = <<>>
        /\ notices[c] = <<>>
        /\ pc[c] \in {"fn", "returned", "thrown"}
        /\ Done(c) =>
              /\ Len(trace[c]) = 1
              /\ trace[c][1].ok =>
                    pc[c] = "returned" /\ returned[c] = [n |-> 1, v |-> trace[c][1].value]
              /\ (Failed(c, 1) /\ ~IsRetryable(Failure(c, 1))) =>
                    pc[c] = "thrown" /\ thrown[c] = Failure(c, 1)
              /\ (Failed(c, 1) /\ IsRetryable(Failure(c, 1))) =>
                    /\ pc[c] = "thrown"
                    /\ thrown[c] = NewError(StrMaxRetries \o <<"0">> \o StrReached
                                            \o Failure(c, 1).message)

\* maxRetries 0 and one "503": the "Max retries (0)" error, nothing waited
C24_Witness ==
    /\ maxRetries[1] = Num(0)
    /\ pc[1] = "thrown"
    /\ Len(trace[1]) = 1
    /\ Failure(1, 1).message = Msg503
    /\ thrown[1].by = "retryWithBackoff"
    /\ Includes(thrown[1].message, <<"(", "0", ")">>)
    /\ waits[1] = <<>>
    /\ notices[1] = <<>>


\* the configuration call c works with
Config(c) == <<maxRetries[c], initialDelay[c], maxDelay[c], backoffMultiplier[c]>>

\* C25: a call writes nothing but its attempt index, its delay and its
\* last error: the options object stays as the caller passed it, the four
\* effective settings are the same at every step, and the delay and the
\* attempt index change only in the step that follows a completed wait.
C25_Frame ==
    /\ [][\A c \in Calls : pc[c] # "idle" =>
             /\ options[c]' = options[c]
             /\ Config(c)' = Config(c)
             /\ (delay[c]' # delay[c] \/ attempt[c]' # attempt[c]) =>
                   /\ pc[c] = "sleep"
                   /\ attempt[c]' = attempt[c] + 1
                   /\ delay[c]' = MathMin(Times(delay[c], backoffMultiplier[c]), maxDelay[c])
                   /\ lastError[c]' = lastError[c]
                   /\ waits[c]' = waits[c]
             /\ lastError[c]' # lastError[c] => pc[c] = "fn" /\ Failed(c, Len(trace[c]))']_vars
    /\ [](\A c \in Calls : pc[c] # "idle" =>
             LET cfg == Effective(options[c])
             IN  Config(c) = <<cfg.maxRetries, cfg.initialDelay, cfg.maxDelay,
                               cfg.backoffMultiplier>>)

\* two waits are over: attempt 2 and the delay grown twice, under the
\* options and the settings the call began with
C25_Witness ==
    /\ pc[1] = "fn"
    /\ attempt[1] = 2
    /\ options[1] = [maxRetries |-> Num(3)]
    /\ Config(1) = <<Num(3), Num(1000), Num(60000), Num(2)>>
    /\ delay[1] = Num(4000)
    /\ Len(waits[1]) = 2


\* the message has a "retry in" hint and none of the five substrings
HintOnly(msg) ==
    /\ RetryAfterMatch(msg).found
    /\ \A s \in {Str429, StrQuota, StrRateLimit, Str500, Str503} : ~Includes(msg, s)

\* C26: a hint does not make an error retryable: an error whose message
\* has a "retry in" hint but none of "429", "quota", "rate limit", "500",
\* "503" is thrown as it is in the step in which fn rejects, with no wait
\* and no notice after it.
C26_HintAloneIsFatal ==
    \A c \in Calls : \A k \in 1..Len(trace[c]) :
        (Failed(c, k) /\ trace[c][k].hasMessage /\ HintOnly(trace[c][k].message)) =>
            /\ pc[c] = "thrown"
            /\ thrown[c] = Failure(c, k)
            /\ k = Len(trace[c])
            /\ Invocations(c) = k
            /\ Len(waits[c]) = k - 1
            /\ Len(notices[c]) = k - 1

\* "429" was retried, then "please retry in 3 seconds" was thrown at once
C26_Witness ==
    /\ Len(trace[1]) = 2
    /\ Failure(1, 1).message = Msg429
    /\ Failure(1, 2).message = MsgHintOnly
    /\ pc[1] = "thrown"
    /\ thrown[1] = Failure(1, 2)
    /\ Len(waits[1]) = 1


\* call c has thrown the "Max retries" error
RetriesExhausted(c) ==
    /\ pc[c] = "thrown"
    /\ thrown[c].by = "retryWithBackoff"
    /\ StartsAt(thrown[c].message, StrMaxRetries, 1)

\* C27: the "Max retries" error is thrown only after exactly maxRetries + 1
\* invocations that all failed with a retryable error and exactly
\* maxRetries waits; a call that has thrown anything else after invoking
\* fn has thrown the error object of the last invocation.
C27_ExhaustedOnlyAfterAllAttempts ==
    \A c \in Calls :
        /\ RetriesExhausted(c) =>
              /\ NatRetries(c)
              /\ Invocations(c) = maxRetries[c].n + 1
              /\ Len(trace[c]) = maxRetries[c].n + 1
              /\ \A k \in 1..Len(trace[c]) :
                    Failed(c, k) /\ IsRetryable(Failure(c, k))
              /\ Len(waits[c]) = maxRetries[c].n
        /\ (pc[c] = "thrown" /\ trace[c] # <<>> /\ ~RetriesExhausted(c)) =>
              /\ Failed(c, Len(trace[c]))
              /\ thrown[c] = Failure(c, Len(trace[c]))

\* a call with maxRetries 2 that threw "permission denied" on its third
\* invocation, after two waits
C27_Witness ==
    /\ maxRetries[1] = Num(2)
    /\ pc[1] = "thrown"
    /\ Len(trace[1]) = 3
    /\ Len(waits[1]) = 2
    /\ ~RetriesExhausted(1)
    /\ thrown[1] = FnError(3, TRUE, MsgDenied)


Plus(x, y) == Rat(x.n * y.d + y.n * x.d, x.d * y.d)

\* the sum of a sequence of durations
RECURSIVE TotalOf(_)
TotalOf(ws) == IF ws = <<>> THEN Num(0) ELSE Plus(ws[1], TotalOf(Tail(ws)))

\* C28: with a non-negative integer maxRetries a call waits at most
\* maxRetries times, and the sum of its waits is at most
\* maxRetries * maxDelay, whatever errors and hints it meets.
C28_TotalWaitBounded ==
    \A c \in Calls : NatRetries(c) =>
        /\ Len(waits[c]) <= maxRetries[c].n
        /\ Leq(TotalOf(waits[c]), Times(maxRetries[c], maxDelay[c]))

\* maxRetries 2 and maxDelay 2000: two hints of 2.5 s, each cut down to
\* 2000, make the total the largest allowed
C28_Witness ==
    /\ maxRetries[1] = Num(2)
    /\ maxDelay[1] = Num(2000)
    /\ Len(trace[1]) >= 2
    /\ Failure(1, 1).message = MsgHintSeconds
    /\ Failure(1, 2).message = MsgHintSeconds
    /\ waits[1] = <<Num(2000), Num(2000)>>
    /\ TotalOf(waits[1]) = Num(4000)


====
